---- MODULE Spec2Model ----
(***************************************************************************)
(* A model of the crit-bit map of src/lib.rs: the bit probe bit_at, the    *)
(* recursive node algorithms of CritBitNode (len, get, get_mut, insert)    *)
(* and the container facade CritBit.                                       *)
(*                                                                         *)
(* Option<T> is a sequence of length at most one: None is <<>> and         *)
(* Some(x) is <<x>>.  A node is a record tagged "Leaf" or "Internal".      *)
(* A mutable reference into the tree (the result of get_mut) is the path   *)
(* of child selections (0 = left, 1 = right) from the root to the value.   *)
(***************************************************************************)
EXTENDS Integers, Sequences, FiniteSets, TLC

\* ------------------------------------------------------------------ bounds
\* Width in bits of the key type K of the container under test.
KeyBits == 2
\* Largest number of distinct keys inserted into one container.
MaxKeys == 3
\* Largest width of the integer type the bit probe is exercised on.
MaxProbeBits == 8
\* Largest number of distinct keys inserted where only inserts are made.
MaxDeepKeys == 4

Pow2(n) == 2 ^ n
\* The values of the key type K, an unsigned integer of KeyBits bits.
Keys == 0 .. (Pow2(KeyBits) - 1)
\* The values of the value type V: opaque data, two of them to tell an
\* overwrite from the value it replaces.
Values == {1, 2}
ProbeWidths == 1 .. MaxProbeBits

\* ------------------------------------------------------------------ Option
None == << >>
Some(x) == << x >>

\* ------------------------------------------------- PrimInt primitives used
\* Number of significant bits of x (0 for x = 0).
RECURSIVE BitLen(_)
BitLen(x) == IF x = 0 THEN 0 ELSE 1 + BitLen(x \div 2)

\* PrimInt::leading_zeros on a w-bit unsigned integer.
leading_zeros(w, x) == w - BitLen(x)

\* PrimInt::rotate_left on a w-bit unsigned integer; the rotation amount is
\* taken modulo the width.
rotate_left(w, x, n) ==
  LET s == n % w
  IN  ((x * Pow2(s)) % Pow2(w)) + (x \div Pow2(w - s))

\* Bitwise exclusive or (the ^ of line 152) on unsigned integers.
RECURSIVE BitXor(_, _)
BitXor(a, b) ==
  IF a = 0 /\ b = 0 THEN 0
  ELSE (((a % 2) + (b % 2)) % 2) + 2 * BitXor(a \div 2, b \div 2)

\* ---------------------------------------------------------------- bit_at
\* A probe that counts positions from the least significant bit.
bit_at_lsb(w, value, pos) == (value \div Pow2(pos)) % 2 = 1

\* fn bit_at<T: PrimInt>(value, pos): w is the width of T.
bit_at(w, value, pos) == leading_zeros(w, rotate_left(w, value, pos)) = 0

\* The probe at the key type of the container.
key_bit(key, crit) == bit_at(KeyBits, key, crit)

\* ------------------------------------------------------------------ nodes
Leaf(k, v) == [tag |-> "Leaf", k |-> k, v |-> v]
Internal(l, r, c) == [tag |-> "Internal", left |-> l, right |-> r, crit |-> c]

\* CritBitNode::len
RECURSIVE CritBitNode_len(_)
\* A count that forgets the right subtree.
CritBitNode_len_leftonly(n) ==
  IF n.tag = "Leaf" THEN 1
  ELSE IF n.left # None THEN CritBitNode_len(n.left[1]) ELSE 0

\* A count that counts the Internal nodes as well.
CritBitNode_len_nodes(n) ==
  IF n.tag = "Leaf" THEN 1
  ELSE 1 + (IF n.left # None THEN CritBitNode_len(n.left[1]) ELSE 0)
         + (IF n.right # None THEN CritBitNode_len(n.right[1]) ELSE 0)

CritBitNode_len(n) ==
  IF n.tag = "Leaf" THEN 1
  ELSE (IF n.left # None THEN CritBitNode_len(n.left[1]) ELSE 0)
       + (IF n.right # None THEN CritBitNode_len(n.right[1]) ELSE 0)

\* CritBitNode::get
RECURSIVE CritBitNode_get(_, _)
\* A lookup whose Leaf arm does not compare the key.
CritBitNode_get_nokeycheck(n, key) ==
  IF n.tag = "Leaf" THEN Some(n.v)
  ELSE IF n.left # None /\ ~key_bit(key, n.crit)
         THEN CritBitNode_get(n.left[1], key)
  ELSE IF n.right # None /\ key_bit(key, n.crit)
         THEN CritBitNode_get(n.right[1], key)
  ELSE None

CritBitNode_get(n, key) ==
  IF n.tag = "Leaf" THEN (IF n.k = key THEN Some(n.v) ELSE None)
  ELSE IF n.left # None /\ ~key_bit(key, n.crit)
         THEN CritBitNode_get(n.left[1], key)
  ELSE IF n.right # None /\ key_bit(key, n.crit)
         THEN CritBitNode_get(n.right[1], key)
  ELSE None

\* CritBitNode::get_mut: the reference is the path to the Leaf's value.
RECURSIVE CritBitNode_get_mut(_, _)
\* A lookup that descends into the branch the probe does not select.
CritBitNode_get_mut_flipped(n, key) ==
  IF n.tag = "Leaf" THEN (IF n.k = key THEN Some(<< >>) ELSE None)
  ELSE IF n.left # None /\ key_bit(key, n.crit)
         THEN LET r == CritBitNode_get_mut(n.left[1], key)
              IN  IF r = None THEN None ELSE Some(<<0>> \o r[1])
  ELSE IF n.right # None /\ ~key_bit(key, n.crit)
         THEN LET r == CritBitNode_get_mut(n.right[1], key)
              IN  IF r = None THEN None ELSE Some(<<1>> \o r[1])
  ELSE None

CritBitNode_get_mut(n, key) ==
  IF n.tag = "Leaf" THEN (IF n.k = key THEN Some(<< >>) ELSE None)
  ELSE IF n.left # None /\ ~key_bit(key, n.crit)
         THEN LET r == CritBitNode_get_mut(n.left[1], key)
              IN  IF r = None THEN None ELSE Some(<<0>> \o r[1])
  ELSE IF n.right # None /\ key_bit(key, n.crit)
         THEN LET r == CritBitNode_get_mut(n.right[1], key)
              IN  IF r = None THEN None ELSE Some(<<1>> \o r[1])
  ELSE None

\* Reading through a &mut V obtained from get_mut.
RECURSIVE Deref(_, _)
Deref(n, path) ==
  IF path = << >> THEN n.v
  ELSE IF Head(path) = 0 THEN Deref(n.left[1], Tail(path))
  ELSE Deref(n.right[1], Tail(path))

\* Writing w through a &mut V obtained from get_mut (line 269 of the tests).
RECURSIVE DerefAssign(_, _, _)
\* A write that lands in every Leaf below n.
RECURSIVE DerefAssign_all(_, _, _)
DerefAssign_all(n, path, w) ==
  IF n.tag = "Leaf" THEN [n EXCEPT !.v = w]
  ELSE [n EXCEPT
          !.left = IF n.left # None
                     THEN Some(DerefAssign_all(n.left[1], path, w)) ELSE None,
          !.right = IF n.right # None
                      THEN Some(DerefAssign_all(n.right[1], path, w)) ELSE None]

DerefAssign(n, path, w) ==
  IF path = << >> THEN [n EXCEPT !.v = w]
  ELSE IF Head(path) = 0
         THEN [n EXCEPT !.left = Some(DerefAssign(n.left[1], Tail(path), w))]
  ELSE [n EXCEPT !.right = Some(DerefAssign(n.right[1], Tail(path), w))]

\* The Internal node built at lines 152-168 when insert(key, value) meets
\* Leaf(k, v) with k # key.
\* The same node with the two branches exchanged.
SplitLeaf_swapped(k, v, key, value) ==
  LET crit == leading_zeros(KeyBits, BitXor(k, key))
  IN  IF k < key
        THEN Internal(Some(Leaf(key, value)), Some(Leaf(k, v)), crit)
        ELSE Internal(Some(Leaf(k, v)), Some(Leaf(key, value)), crit)

\* The same node with the left branch left empty.
SplitLeaf_noleft(k, v, key, value) ==
  LET crit == leading_zeros(KeyBits, BitXor(k, key))
  IN  IF k < key
        THEN Internal(None, Some(Leaf(key, value)), crit)
        ELSE Internal(None, Some(Leaf(k, v)), crit)

\* The same node with the crit of the placeholder (0) left in place.
SplitLeaf_crit0(k, v, key, value) ==
  IF k < key
    THEN Internal(Some(Leaf(k, v)), Some(Leaf(key, value)), 0)
    ELSE Internal(Some(Leaf(key, value)), Some(Leaf(k, v)), 0)

\* The same node with the new value stored in the old Leaf as well.
SplitLeaf_losevalue(k, v, key, value) ==
  LET crit == leading_zeros(KeyBits, BitXor(k, key))
  IN  IF k < key
        THEN Internal(Some(Leaf(k, value)), Some(Leaf(key, value)), crit)
        ELSE Internal(Some(Leaf(key, value)), Some(Leaf(k, value)), crit)

\* The same node with the last bit position taken as its crit.
SplitLeaf_lastbit(k, v, key, value) ==
  IF k < key
    THEN Internal(Some(Leaf(k, v)), Some(Leaf(key, value)), KeyBits - 1)
    ELSE Internal(Some(Leaf(key, value)), Some(Leaf(k, v)), KeyBits - 1)

\* The same node with the right branch left empty.
SplitLeaf_halfbuilt(k, v, key, value) ==
  LET crit == leading_zeros(KeyBits, BitXor(k, key))
  IN  IF k < key
        THEN Internal(Some(Leaf(k, v)), None, crit)
        ELSE Internal(Some(Leaf(key, value)), None, crit)

SplitLeaf(k, v, key, value) ==
  LET crit == leading_zeros(KeyBits, BitXor(k, key))
  IN  IF k < key
        THEN Internal(Some(Leaf(k, v)), Some(Leaf(key, value)), crit)
        ELSE Internal(Some(Leaf(key, value)), Some(Leaf(k, v)), crit)

\* CritBitNode::insert.  The result is the node as the call leaves it, the
\* returned Option<V>, and which unreachable!() was hit, if any.
RECURSIVE CritBitNode_insert(_, _, _)
\* An insert that reports none when it overwrites.
CritBitNode_insert_noret(n, key, value) ==
  IF n.tag = "Leaf" /\ n.k = key
    THEN [node |-> [n EXCEPT !.v = value], ret |-> None, abort |-> "none"]
  ELSE IF n.tag = "Leaf"
    THEN [node |-> SplitLeaf(n.k, n.v, key, value),
          ret |-> None, abort |-> "none"]
  ELSE IF n.left # None /\ ~key_bit(key, n.crit)
    THEN LET r == CritBitNode_insert(n.left[1], key, value)
         IN  [node |-> [n EXCEPT !.left = Some(r.node)],
              ret |-> r.ret, abort |-> r.abort]
  ELSE IF n.right # None /\ key_bit(key, n.crit)
    THEN LET r == CritBitNode_insert(n.right[1], key, value)
         IN  [node |-> [n EXCEPT !.right = Some(r.node)],
              ret |-> r.ret, abort |-> r.abort]
  ELSE [node |-> n, ret |-> None, abort |-> "both_branches"]

\* An insert without the arm for a Leaf that holds the key: it splits that
\* Leaf as well.
CritBitNode_insert_dup(n, key, value) ==
  IF n.tag = "Leaf"
    THEN [node |-> SplitLeaf(n.k, n.v, key, value),
          ret |-> None, abort |-> "none"]
  ELSE IF n.left # None /\ ~key_bit(key, n.crit)
    THEN LET r == CritBitNode_insert(n.left[1], key, value)
         IN  [node |-> [n EXCEPT !.left = Some(r.node)],
              ret |-> r.ret, abort |-> r.abort]
  ELSE IF n.right # None /\ key_bit(key, n.crit)
    THEN LET r == CritBitNode_insert(n.right[1], key, value)
         IN  [node |-> [n EXCEPT !.right = Some(r.node)],
              ret |-> r.ret, abort |-> r.abort]
  ELSE [node |-> n, ret |-> None, abort |-> "both_branches"]

\* An insert that resets the crit of the Internal nodes it descends through.
CritBitNode_insert_touchcrit(n, key, value) ==
  IF n.tag = "Leaf" /\ n.k = key
    THEN [node |-> [n EXCEPT !.v = value], ret |-> Some(n.v), abort |-> "none"]
  ELSE IF n.tag = "Leaf"
    THEN [node |-> SplitLeaf(n.k, n.v, key, value),
          ret |-> None, abort |-> "none"]
  ELSE IF n.left # None /\ ~key_bit(key, n.crit)
    THEN LET r == CritBitNode_insert(n.left[1], key, value)
         IN  [node |-> [n EXCEPT !.left = Some(r.node), !.crit = 0],
              ret |-> r.ret, abort |-> r.abort]
  ELSE IF n.right # None /\ key_bit(key, n.crit)
    THEN LET r == CritBitNode_insert(n.right[1], key, value)
         IN  [node |-> [n EXCEPT !.right = Some(r.node), !.crit = 0],
              ret |-> r.ret, abort |-> r.abort]
  ELSE [node |-> n, ret |-> None, abort |-> "both_branches"]

\* An insert that keeps the old value when the key is already stored.
CritBitNode_insert_keepold(n, key, value) ==
  IF n.tag = "Leaf" /\ n.k = key
    THEN [node |-> n, ret |-> Some(n.v), abort |-> "none"]
  ELSE IF n.tag = "Leaf"
    THEN [node |-> SplitLeaf(n.k, n.v, key, value),
          ret |-> None, abort |-> "none"]
  ELSE IF n.left # None /\ ~key_bit(key, n.crit)
    THEN LET r == CritBitNode_insert(n.left[1], key, value)
         IN  [node |-> [n EXCEPT !.left = Some(r.node)],
              ret |-> r.ret, abort |-> r.abort]
  ELSE IF n.right # None /\ key_bit(key, n.crit)
    THEN LET r == CritBitNode_insert(n.right[1], key, value)
         IN  [node |-> [n EXCEPT !.right = Some(r.node)],
              ret |-> r.ret, abort |-> r.abort]
  ELSE [node |-> n, ret |-> None, abort |-> "both_branches"]

CritBitNode_insert(n, key, value) ==
  IF n.tag = "Leaf" /\ n.k = key
    THEN [node |-> [n EXCEPT !.v = value], ret |-> Some(n.v), abort |-> "none"]
  ELSE IF n.tag = "Leaf"
    THEN LET old == n      \* what mem::replace(self, placeholder) hands back
         IN  IF old.tag = "Leaf"
               THEN [node |-> SplitLeaf(old.k, old.v, key, value),
                     ret |-> None, abort |-> "none"]
               ELSE [node |-> Internal(None, None, 0),
                     ret |-> None, abort |-> "was_leaf"]
  ELSE IF n.left # None /\ ~key_bit(key, n.crit)
    THEN LET r == CritBitNode_insert(n.left[1], key, value)
         IN  [node |-> [n EXCEPT !.left = Some(r.node)],
              ret |-> r.ret, abort |-> r.abort]
  ELSE IF n.right # None /\ key_bit(key, n.crit)
    THEN LET r == CritBitNode_insert(n.right[1], key, value)
         IN  [node |-> [n EXCEPT !.right = Some(r.node)],
              ret |-> r.ret, abort |-> r.abort]
  ELSE [node |-> n, ret |-> None, abort |-> "both_branches"]

\* -------------------------------------------------------------- container
\* CritBit::new
CritBit_new == None

\* CritBit::clear: the root after the call.
\* A clear that keeps the root.
CritBit_clear_keep(t) == t

CritBit_clear(t) == None

\* CritBit::is_empty
CritBit_is_empty(t) == t = None

\* CritBit::len
CritBit_len(t) == IF t = None THEN 0 ELSE CritBitNode_len(t[1])

\* CritBit::get
CritBit_get(t, key) == IF t = None THEN None ELSE CritBitNode_get(t[1], key)

\* CritBit::get_mut
CritBit_get_mut(t, key) ==
  IF t = None THEN None ELSE CritBitNode_get_mut(t[1], key)

\* CritBit::contains_key
CritBit_contains_key(t, key) == CritBit_get(t, key) # None

\* CritBit::insert: the root after the call, the returned Option<V>, and
\* which unreachable!() was hit, if any.
CritBit_insert(t, key, value) ==
  IF t # None
    THEN LET r == CritBitNode_insert(t[1], key, value)
         IN  [root |-> Some(r.node), ret |-> r.ret, abort |-> r.abort]
    ELSE [root |-> Some(Leaf(key, value)), ret |-> None, abort |-> "none"]

\* ------------------------------------------------------------------ state
VARIABLES
  root,      \* the field CritBit.0: Option<CritBitNode<K, V>>
  aborted,   \* "none", or the unreachable!() arm that ended the program
  last,      \* the public call made last: its name, arguments and result
  shadow,    \* history: key |-> value last stored for it, for the keys
             \* inserted since the container was last made empty by new()
             \* or clear()
  pwidth,    \* bit probe: width of the probed integer type
  pvalue,    \* bit probe: the probed value
  ppos,      \* bit probe: the probed position
  presult,   \* bit probe: None before the call, Some(result) after it
  pc,        \* where an insert that runs step by step stands; "idle"
             \* between calls
  frame      \* that insert's locals: None between calls, else
             \* Some([key, value, slot, held, fresh]) with slot the path
             \* to the node that self refers to, held the Leaf moved out of
             \* the slot, fresh the replacement node once it is built

vars == << root, aborted, last, shadow, pwidth, pvalue, ppos, presult,
           pc, frame >>
treeVars == << root, aborted, last, shadow >>
probeVars == << pwidth, pvalue, ppos, presult >>
stepVars == << pc, frame >>

\* A public call: key is the key of the entry it stored or borrowed mutably
\* (None when it did neither), val the value it stored (None when it stored
\* none), ret what it returned (a bool or usize as Some(result)), pre the
\* keys present before a clear().
Call(op, key, val, ret, pre) ==
  [op |-> op, key |-> key, val |-> val, ret |-> ret, pre |-> pre]

\* The keys inserted since the container was last made empty.
Inserted == DOMAIN shadow

\* The keys for which contains_key holds.
Present(t) == { k \in Keys : CritBit_contains_key(t, k) }

Put(f, k, v) == [x \in (DOMAIN f) \cup {k} |-> IF x = k THEN v ELSE f[x]]

TreeInit ==
  /\ root = CritBit_new
  /\ aborted = "none"
  /\ last = Call("new", None, None, None, {})
  /\ shadow = << >>

ProbeIdle ==
  /\ pwidth = 1
  /\ pvalue = 0
  /\ ppos = 0
  /\ presult = None

StepIdle ==
  /\ pc = "idle"
  /\ frame = None

Init == TreeInit /\ ProbeIdle /\ StepIdle

\* let t = CritBit::new() (or CritBit::default()): a fresh container.
New ==
  /\ aborted = "none"
  /\ root' = CritBit_new
  /\ last' = Call("new", None, None, None, {})
  /\ shadow' = << >>
  /\ UNCHANGED << aborted, probeVars, stepVars >>

\* t.insert(key, value)
InsertCall(key, value) ==
  /\ aborted = "none"
  /\ LET r == CritBit_insert(root, key, value)
     IN  /\ aborted' = r.abort
         /\ root' = r.root
         /\ last' = Call("insert", Some(key), Some(value), r.ret, {})
         /\ shadow' = IF r.abort = "none" THEN Put(shadow, key, value)
                                           ELSE shadow
  /\ UNCHANGED << probeVars, stepVars >>

\* t.insert(key, value), among the other calls
Insert(key, value) ==
  /\ Cardinality(Inserted \cup {key}) <= MaxKeys
  /\ InsertCall(key, value)

\* t.insert(key, value), where only inserts are made
InsertDeep(key, value) ==
  /\ Cardinality(Inserted \cup {key}) <= MaxDeepKeys
  /\ InsertCall(key, value)

\* t.get(&key)
Get(key) ==
  /\ aborted = "none"
  /\ last' = Call("get", None, None, CritBit_get(root, key), {})
  /\ UNCHANGED << root, aborted, shadow, probeVars, stepVars >>

\* if let Some(r) = t.get_mut(&key) { *r = w }
GetMut(key, w) ==
  /\ aborted = "none"
  /\ LET r == CritBit_get_mut(root, key)
     IN  IF r = None
           THEN /\ last' = Call("get_mut", None, None, None, {})
                /\ UNCHANGED << root, shadow >>
           ELSE /\ last' = Call("get_mut", Some(key), Some(w),
                                Some(Deref(root[1], r[1])), {})
                /\ root' = Some(DerefAssign(root[1], r[1], w))
                /\ shadow' = Put(shadow, key, w)
  /\ UNCHANGED << aborted, probeVars, stepVars >>

\* t.contains_key(&key)
ContainsKey(key) ==
  /\ aborted = "none"
  /\ last' = Call("contains_key", None, None,
                  Some(CritBit_contains_key(root, key)), {})
  /\ UNCHANGED << root, aborted, shadow, probeVars, stepVars >>

\* t.len()
LenCall ==
  /\ aborted = "none"
  /\ last' = Call("len", None, None, Some(CritBit_len(root)), {})
  /\ UNCHANGED << root, aborted, shadow, probeVars, stepVars >>

\* t.is_empty()
IsEmpty ==
  /\ aborted = "none"
  /\ last' = Call("is_empty", None, None, Some(CritBit_is_empty(root)), {})
  /\ UNCHANGED << root, aborted, shadow, probeVars, stepVars >>

\* t.clear()
Clear ==
  /\ aborted = "none"
  /\ root' = CritBit_clear(root)
  /\ last' = Call("clear", None, None, None, Present(root))
  /\ shadow' = << >>
  /\ UNCHANGED << aborted, probeVars, stepVars >>

Next ==
  \/ New
  \/ \E key \in Keys, value \in Values : Insert(key, value)
  \/ \E key \in Keys : Get(key)
  \/ \E key \in Keys, w \in Values : GetMut(key, w)
  \/ \E key \in Keys : ContainsKey(key)
  \/ LenCall
  \/ IsEmpty
  \/ Clear

Spec == Init /\ [][Next]_vars

\* ------------------------------------------------- the calls that write
NextWrites ==
  \/ \E key \in Keys, value \in Values : Insert(key, value)
  \/ \E key \in Keys, w \in Values : GetMut(key, w)

SpecWrites == Init /\ [][NextWrites]_vars

\* ------------------------------------------- a container that only grows
NextInserts == \E key \in Keys, value \in Values : InsertDeep(key, value)

SpecInserts == Init /\ [][NextInserts]_vars

\* ------------------------------------------------- the bit probe on its own
InitBitAt ==
  /\ TreeInit
  /\ StepIdle
  /\ pwidth \in ProbeWidths
  /\ pvalue \in 0 .. (Pow2(pwidth) - 1)
  /\ ppos \in 0 .. (pwidth - 1)
  /\ presult = None

\* bit_at(&pvalue, &ppos) at an integer type of pwidth bits
Probe ==
  /\ presult = None
  /\ presult' = Some(bit_at(pwidth, pvalue, ppos))
  /\ UNCHANGED << pwidth, pvalue, ppos, treeVars, stepVars >>

NextBitAt == Probe

SpecBitAt == InitBitAt /\ [][NextBitAt]_vars

\* ------------------------------------------------------- shape of the tree
\* The bit of a w-bit key at position p counted from the most significant
\* bit, by arithmetic.
MsbBit(w, key, p) == (key \div Pow2(w - 1 - p)) % 2 = 1

\* The keys held by the Leaves under n.
RECURSIVE LeafKeys(_)
LeafKeys(n) ==
  IF n.tag = "Leaf" THEN {n.k}
  ELSE (IF n.left # None THEN LeafKeys(n.left[1]) ELSE {})
       \cup (IF n.right # None THEN LeafKeys(n.right[1]) ELSE {})

\* Below n every crit exceeds lo and the crit of the Internal node above it,
\* and is less than the key width.
RECURSIVE CritsIncrease(_, _)
CritsIncrease(n, lo) ==
  \/ n.tag = "Leaf"
  \/ /\ n.crit > lo
     /\ n.crit < KeyBits
     /\ (n.left # None => CritsIncrease(n.left[1], n.crit))
     /\ (n.right # None => CritsIncrease(n.right[1], n.crit))

\* Below n every Internal node has the keys with bit crit clear on its left
\* and the keys with bit crit set on its right.
RECURSIVE BranchesSplitOnCrit(_)
BranchesSplitOnCrit(n) ==
  \/ n.tag = "Leaf"
  \/ /\ n.left # None =>
          /\ \A k \in LeafKeys(n.left[1]) : ~MsbBit(KeyBits, k, n.crit)
          /\ BranchesSplitOnCrit(n.left[1])
     /\ n.right # None =>
          /\ \A k \in LeafKeys(n.right[1]) : MsbBit(KeyBits, k, n.crit)
          /\ BranchesSplitOnCrit(n.right[1])

\* Some Internal node lies under an Internal node of a larger or equal crit:
\* a Leaf was split on a bit more significant than an ancestor's.
SplitAboveAncestor == root # None /\ ~CritsIncrease(root[1], 0 - 1)

\* ------------------------------------------------------------------ claims

\* C1: after any sequence of calls, every key inserted since the container
\* was last empty is retrievable, and get(k) is the value stored for k last
\* (by the last insert of k, or by a later write through get_mut(k)); this
\* includes trees in which a Leaf was split on a bit more significant than
\* the crit of an ancestor.
C1_GetReturnsLastInserted ==
  aborted = "none" =>
    \A k \in Inserted : CritBit_get(root, k) = Some(shadow[k])

C1_Witness ==
  /\ SplitAboveAncestor
  /\ last.op = "insert"
  /\ Cardinality(Inserted) >= 3
  /\ \A k \in Inserted : CritBit_get(root, k) = Some(shadow[k])

\* C2: a key that was not inserted since the container was last empty (in
\* particular a key never inserted since new()) is absent whatever other
\* keys were inserted: get and get_mut return none and contains_key is false.
C2_NeverInsertedIsAbsent ==
  \A k \in Keys \ Inserted :
    /\ CritBit_get(root, k) = None
    /\ CritBit_get_mut(root, k) = None
    /\ ~CritBit_contains_key(root, k)

C2_Witness ==
  /\ Cardinality(Inserted) >= 3
  /\ Keys \ Inserted # {}
  /\ \A k \in Keys \ Inserted : CritBit_get(root, k) = None

\* C3: insert(k, v) returns the value stored for k just before the call, or
\* none if k was absent, and len() grows by one exactly when k was absent.
C3_InsertReturnsPrior ==
  [][ (last'.op = "insert" /\ aborted' = "none") =>
        LET k == last'.key[1]
        IN  /\ last'.ret = CritBit_get(root, k)
            /\ CritBit_len(root') =
                 CritBit_len(root)
                   + (IF CritBit_contains_key(root, k) THEN 0 ELSE 1) ]_vars

C3_Witness ==
  /\ last.op = "insert"
  /\ last.ret # None
  /\ last.ret # Some(last.val[1])
  /\ root # None /\ root[1].tag = "Internal"

\* C4: len() is the number of distinct keys inserted since the container was
\* last empty; inserting a key again does not count twice.
C4_LenCountsDistinctKeys ==
  aborted = "none" => CritBit_len(root) = Cardinality(Inserted)

C4_Witness ==
  /\ last.op = "insert"
  /\ last.ret # None
  /\ CritBit_len(root) = 3
  /\ Cardinality(Inserted) = 3

\* C5: after clear() the container is empty: is_empty() holds, len() is 0 and
\* no key is contained, the keys present before the call included.
C5_ClearEmpties ==
  last.op = "clear" =>
    /\ CritBit_is_empty(root)
    /\ CritBit_len(root) = 0
    /\ \A k \in Keys : /\ ~CritBit_contains_key(root, k)
                       /\ CritBit_get(root, k) = None

C5_Witness ==
  /\ last.op = "clear"
  /\ Cardinality(last.pre) >= 2
  /\ \A k \in last.pre : ~CritBit_contains_key(root, k)

\* C6: for a present key k, get_mut(k) yields a reference to the value
\* stored for k, and after writing w through it get(k) returns w.
C6_GetMutWriteObserved ==
  /\ \A k \in Keys :
       CritBit_contains_key(root, k) =>
         LET r == CritBit_get_mut(root, k)
         IN  /\ r # None
             /\ Some(Deref(root[1], r[1])) = CritBit_get(root, k)
  /\ (last.op = "get_mut" /\ last.key # None) =>
       CritBit_get(root, last.key[1]) = last.val

C6_Witness ==
  /\ last.op = "get_mut"
  /\ last.ret # None
  /\ last.ret # last.val
  /\ CritBit_get(root, last.key[1]) = last.val
  /\ CritBit_len(root) >= 2

\* C7: no sequence of public calls reaches either unreachable!() of
\* CritBitNode::insert.
C7_NoUnreachable == aborted = "none"

C7_Witness ==
  /\ aborted = "none"
  /\ last.op = "insert"
  /\ last.ret = None
  /\ CritBit_len(root) >= 3

\* C8: for a key of w bits and 0 <= p < w, bit_at(key, p) is the bit of key
\* at position p counted from the most significant bit; on 8-bit keys
\* bit_at(1,0) and bit_at(128,7) are false, bit_at(128,0) and bit_at(1,7)
\* are true.
C8_BitAtIsMsbBit ==
  presult # None =>
    /\ presult[1] = MsbBit(pwidth, pvalue, ppos)
    /\ (pwidth = 8 /\ pvalue = 1 /\ ppos = 0) => presult[1] = FALSE
    /\ (pwidth = 8 /\ pvalue = 128 /\ ppos = 0) => presult[1] = TRUE
    /\ (pwidth = 8 /\ pvalue = 1 /\ ppos = 7) => presult[1] = TRUE
    /\ (pwidth = 8 /\ pvalue = 128 /\ ppos = 7) => presult[1] = FALSE

C8_Witness ==
  /\ pwidth = 8
  /\ pvalue = 128
  /\ ppos = 0
  /\ presult = Some(TRUE)

\* C9: along every root-to-leaf path the crit values strictly increase and
\* each is less than the key width.
C9_CritsStrictlyIncrease ==
  root # None => CritsIncrease(root[1], 0 - 1)

\* C10: every key under the left child of an Internal node has bit crit
\* clear, and every key under its right child has bit crit set.
C10_BranchesSplitOnCrit ==
  root # None => BranchesSplitOnCrit(root[1])

C10_Witness ==
  /\ SplitAboveAncestor
  /\ Cardinality(LeafKeys(root[1])) >= 3
  /\ BranchesSplitOnCrit(root[1])

\* ------------------------------------------------ more on the tree's shape
\* The keys of the Leaves under n, from left to right, one entry per Leaf.
RECURSIVE LeafKeySeq(_)
LeafKeySeq(n) ==
  IF n.tag = "Leaf" THEN << n.k >>
  ELSE (IF n.left # None THEN LeafKeySeq(n.left[1]) ELSE << >>)
       \o (IF n.right # None THEN LeafKeySeq(n.right[1]) ELSE << >>)

\* Below n every Internal node has a left and a right child.
RECURSIVE BothChildren(_)
BothChildren(n) ==
  \/ n.tag = "Leaf"
  \/ /\ n.left # None
     /\ n.right # None
     /\ BothChildren(n.left[1])
     /\ BothChildren(n.right[1])

\* The first position, from the most significant bit, at which the
\* KeyBits-bit keys a and b differ (KeyBits if they are equal).
RECURSIVE FirstDiffFrom(_, _, _)
FirstDiffFrom(a, b, p) ==
  IF p >= KeyBits THEN KeyBits
  ELSE IF MsbBit(KeyBits, a, p) # MsbBit(KeyBits, b, p) THEN p
  ELSE FirstDiffFrom(a, b, p + 1)

FirstDiff(a, b) == FirstDiffFrom(a, b, 0)

\* Below n, the crit of every Internal node is the first position at which
\* each key on its left differs from each key on its right.
RECURSIVE CritIsFirstDiff(_)
CritIsFirstDiff(n) ==
  \/ n.tag = "Leaf"
  \/ /\ \A a \in (IF n.left # None THEN LeafKeys(n.left[1]) ELSE {}) :
          \A b \in (IF n.right # None THEN LeafKeys(n.right[1]) ELSE {}) :
             FirstDiff(a, b) = n.crit
     /\ n.left # None => CritIsFirstDiff(n.left[1])
     /\ n.right # None => CritIsFirstDiff(n.right[1])

\* Below n, no Internal node has a crit in seen or the crit of an Internal
\* node above it.
RECURSIVE CritsDistinct(_, _)
CritsDistinct(n, seen) ==
  \/ n.tag = "Leaf"
  \/ /\ n.crit \notin seen
     /\ n.left # None => CritsDistinct(n.left[1], seen \cup {n.crit})
     /\ n.right # None => CritsDistinct(n.right[1], seen \cup {n.crit})

\* The largest number of Internal nodes on a path from n to a Leaf.
RECURSIVE Height(_)
Height(n) ==
  IF n.tag = "Leaf" THEN 0
  ELSE LET l == IF n.left # None THEN Height(n.left[1]) ELSE 0
           r == IF n.right # None THEN Height(n.right[1]) ELSE 0
       IN  1 + (IF l > r THEN l ELSE r)

\* C11: the crit of every Internal node is the first bit position at which
\* the keys under its left child differ from the keys under its right child:
\* they agree on every position before crit and differ at crit.
C11_CritIsFirstDifference ==
  root # None => CritIsFirstDiff(root[1])

\* C12: between public calls every Internal node has both its left and its
\* right child.
C12_BothChildrenPresent ==
  root # None => BothChildren(root[1])

C12_Witness ==
  /\ last.op = "get_mut"
  /\ last.key # None
  /\ root # None
  /\ Height(root[1]) >= 2
  /\ BothChildren(root[1])

\* C13: no two Leaves hold the same key, and an insert of a stored key
\* overwrites the value of its Leaf instead of adding a Leaf.
C13_NoDuplicateKeys ==
  /\ root # None =>
       LET ks == LeafKeySeq(root[1])
       IN  \A i, j \in 1 .. Len(ks) : i # j => ks[i] # ks[j]
  /\ (last.op = "insert" /\ last.ret # None /\ aborted = "none") =>
       /\ CritBit_get(root, last.key[1]) = last.val
       /\ Len(LeafKeySeq(root[1])) = Cardinality(Inserted)

C13_Witness ==
  /\ last.op = "insert"
  /\ last.ret # None
  /\ last.ret # last.val
  /\ root # None
  /\ Len(LeafKeySeq(root[1])) = 3
  /\ Cardinality(LeafKeys(root[1])) = 3

\* C19: is_empty() holds exactly when len() is 0, and len() is the number of
\* keys for which contains_key holds.
C19_EmptyIffLenZero ==
  /\ CritBit_is_empty(root) <=> (CritBit_len(root) = 0)
  /\ CritBit_len(root) = Cardinality(Present(root))

C19_Witness ==
  /\ ~CritBit_is_empty(root)
  /\ CritBit_len(root) = 3
  /\ Cardinality(Present(root)) = 3
  /\ last.op = "len"

\* C20: the crit values of the Internal nodes on one root-to-leaf path are
\* pairwise distinct, whether or not they increase.
C20_CritsDistinctOnPath ==
  root # None => CritsDistinct(root[1], {})

C20_Witness ==
  /\ SplitAboveAncestor
  /\ Height(root[1]) >= 2
  /\ CritsDistinct(root[1], {})

\* ---------------------------------------------------- slots of the tree
\* The path (0 = left, 1 = right) from n to the Leaf that a descent on the
\* bits of key reaches.
RECURSIVE DescentPath(_, _)
DescentPath(n, key) ==
  IF n.tag = "Leaf" THEN << >>
  ELSE IF ~MsbBit(KeyBits, key, n.crit)
    THEN (IF n.left # None THEN <<0>> \o DescentPath(n.left[1], key)
                           ELSE << >>)
    ELSE (IF n.right # None THEN <<1>> \o DescentPath(n.right[1], key)
                            ELSE << >>)

\* The node in the slot at path below n.
RECURSIVE NodeAt(_, _)
NodeAt(n, path) ==
  IF path = << >> THEN n
  ELSE IF Head(path) = 0 THEN NodeAt(n.left[1], Tail(path))
  ELSE NodeAt(n.right[1], Tail(path))

\* n with the slot at path holding m and nothing else changed.
RECURSIVE SubstAt(_, _, _)
SubstAt(n, path, m) ==
  IF path = << >> THEN m
  ELSE IF Head(path) = 0
    THEN [n EXCEPT !.left = Some(SubstAt(n.left[1], Tail(path), m))]
  ELSE [n EXCEPT !.right = Some(SubstAt(n.right[1], Tail(path), m))]

\* n without the values of its Leaves.
RECURSIVE Shape(_)
Shape(n) ==
  IF n.tag = "Leaf" THEN [tag |-> "Leaf", k |-> n.k]
  ELSE [tag |-> "Internal", crit |-> n.crit,
        left |-> IF n.left # None THEN Some(Shape(n.left[1])) ELSE None,
        right |-> IF n.right # None THEN Some(Shape(n.right[1])) ELSE None]

\* C15: when insert(key, value) reaches a Leaf of another key k, that Leaf is
\* replaced by an Internal node whose crit is the leading-zero count of
\* k XOR key, the first bit at which they differ; its left child is the Leaf
\* of the smaller key, with bit crit clear, and its right child the Leaf of
\* the larger key, with bit crit set; the old Leaf keeps its value and insert
\* returns none.
C15_SplitBuildsOrderedNode ==
  [][ (last'.op = "insert" /\ aborted' = "none" /\ root # None) =>
        LET key == last'.key[1]
            value == last'.val[1]
            p == DescentPath(root[1], key)
            old == NodeAt(root[1], p)
            new == NodeAt(root'[1], p)
            lo == IF old.k < key THEN old ELSE Leaf(key, value)
            hi == IF old.k < key THEN Leaf(key, value) ELSE old
        IN  (old.tag = "Leaf" /\ old.k # key) =>
              /\ last'.ret = None
              /\ new.tag = "Internal"
              /\ new.crit = leading_zeros(KeyBits, BitXor(old.k, key))
              /\ new.crit = FirstDiff(old.k, key)
              /\ new.left = Some(lo)
              /\ new.right = Some(hi)
              /\ ~MsbBit(KeyBits, lo.k, new.crit)
              /\ MsbBit(KeyBits, hi.k, new.crit) ]_vars

C15_Witness ==
  /\ last.op = "insert"
  /\ last.ret = None
  /\ root # None
  /\ Height(root[1]) >= 2
  /\ LET n == NodeAt(root[1], DescentPath(root[1], last.key[1]))
     IN  n = Leaf(last.key[1], last.val[1])
  /\ \E k \in Inserted : shadow[k] # last.val[1]

\* C16: insert(key, value) of an absent key into a non-empty container
\* changes one slot only: the Leaf that the descent on key's bits reaches is
\* replaced, in its slot, by an Internal node holding that Leaf and the new
\* Leaf; every other node is unchanged.
C16_InsertChangesOneSlot ==
  [][ (last'.op = "insert" /\ aborted' = "none" /\ root # None
         /\ ~CritBit_contains_key(root, last'.key[1])) =>
        LET key == last'.key[1]
            value == last'.val[1]
            p == DescentPath(root[1], key)
            old == NodeAt(root[1], p)
            new == NodeAt(root'[1], p)
        IN  /\ old.tag = "Leaf"
            /\ new.tag = "Internal"
            /\ {new.left, new.right} = {Some(old), Some(Leaf(key, value))}
            /\ root'[1] = SubstAt(root[1], p, new) ]_vars

C16_Witness ==
  /\ last.op = "insert"
  /\ last.ret = None
  /\ root # None
  /\ Len(DescentPath(root[1], last.key[1])) >= 2
  /\ CritBit_len(root) = 3

\* C18: insert(k, v) and a write through get_mut(k) leave get(k2) unchanged
\* for every other key k2; and an insert of a present key or a get_mut write
\* changes only the value of k's Leaf: the Internal nodes, the crits, the
\* Leaf keys and len() stay as they were.
C18_OtherKeysUntouched ==
  [][ (last'.op \in {"insert", "get_mut"} /\ last'.key # None
         /\ aborted' = "none") =>
        LET k == last'.key[1]
        IN  /\ \A k2 \in Keys \ {k} :
                 CritBit_get(root', k2) = CritBit_get(root, k2)
            /\ (last'.op = "get_mut" \/ last'.ret # None) =>
                 /\ root # None
                 /\ Shape(root'[1]) = Shape(root[1])
                 /\ CritBit_len(root') = CritBit_len(root)
                 /\ LET p == DescentPath(root[1], k)
                    IN  root'[1] = SubstAt(root[1], p, Leaf(k, last'.val[1]))
    ]_vars

C18_Witness ==
  /\ last.op = "get_mut"
  /\ last.key # None
  /\ last.ret # last.val
  /\ CritBit_len(root) = 3
  /\ \E k2 \in Inserted \ {last.key[1]} : CritBit_get(root, k2) # last.val

\* C14: a root-to-leaf path holds at most KeyBits Internal nodes, however
\* many entries are stored, so the descent of get, get_mut and insert for
\* any key takes at most KeyBits recursive steps.
C14_DepthAtMostKeyBits ==
  root # None =>
    /\ Height(root[1]) <= KeyBits
    /\ \A k \in Keys : Len(DescentPath(root[1], k)) <= KeyBits
    /\ \A k \in Keys :
         LET r == CritBit_get_mut(root, k)
         IN  r # None => Len(r[1]) <= KeyBits

C14_Witness ==
  /\ root # None
  /\ Cardinality(LeafKeys(root[1])) > KeyBits + 1
  /\ Height(root[1]) = KeyBits
  /\ SplitAboveAncestor

\* ------------------------------------------------ insert, step by step
\* CritBit::insert and CritBitNode::insert run one statement at a time.  The
\* node that self refers to is NodeAt(root[1], frame[1].slot).
Frame(key, value, slot, held, fresh) ==
  [key |-> key, value |-> value, slot |-> slot, held |-> held,
   fresh |-> fresh]

\* The placeholder of lines 146-150.
Placeholder == Internal(None, None, 0)

\* Lines 79-87: an absent root takes the Leaf at once; a present root is
\* handed the call (line 81).
Enter(key, value) ==
  /\ pc = "idle"
  /\ aborted = "none"
  /\ Cardinality(Inserted \cup {key}) <= MaxKeys
  /\ IF root = None
       THEN /\ root' = Some(Leaf(key, value))
            /\ last' = Call("insert", Some(key), Some(value), None, {})
            /\ shadow' = Put(shadow, key, value)
            /\ UNCHANGED << pc, frame >>
       ELSE /\ pc' = "descend"
            /\ frame' = Some(Frame(key, value, << >>, None, None))
            /\ UNCHANGED << root, last, shadow >>
  /\ UNCHANGED << aborted, probeVars >>

\* Lines 175-188: at an Internal node, recurse into the child the probe
\* selects, or hit the unreachable!() of line 185.
StepInto ==
  /\ pc = "descend"
  /\ LET f == frame[1]
         n == NodeAt(root[1], f.slot)
     IN  /\ n.tag = "Internal"
         /\ IF n.left # None /\ ~key_bit(f.key, n.crit)
              THEN /\ frame' = Some([f EXCEPT !.slot = f.slot \o <<0>>])
                   /\ UNCHANGED << pc, aborted >>
            ELSE IF n.right # None /\ key_bit(f.key, n.crit)
              THEN /\ frame' = Some([f EXCEPT !.slot = f.slot \o <<1>>])
                   /\ UNCHANGED << pc, aborted >>
            ELSE /\ aborted' = "both_branches"
                 /\ pc' = "idle"
                 /\ frame' = None
  /\ UNCHANGED << root, last, shadow, probeVars >>

\* Line 142: the Leaf holds the key; replace its value and return the old.
Overwrite ==
  /\ pc = "descend"
  /\ LET f == frame[1]
         n == NodeAt(root[1], f.slot)
     IN  /\ n.tag = "Leaf"
         /\ n.k = f.key
         /\ root' = Some(SubstAt(root[1], f.slot, [n EXCEPT !.v = f.value]))
         /\ last' = Call("insert", Some(f.key), Some(f.value), Some(n.v), {})
         /\ shadow' = Put(shadow, f.key, f.value)
  /\ pc' = "idle"
  /\ frame' = None
  /\ UNCHANGED << aborted, probeVars >>

\* Lines 143-151: the Leaf holds another key; mem::replace puts the
\* placeholder into the slot and hands the Leaf back.
Take ==
  /\ pc = "descend"
  /\ LET f == frame[1]
         n == NodeAt(root[1], f.slot)
     IN  /\ n.tag = "Leaf"
         /\ n.k # f.key
         /\ root' = Some(SubstAt(root[1], f.slot, Placeholder))
         /\ frame' = Some([f EXCEPT !.held = Some(n)])
  /\ pc' = "taken"
  /\ UNCHANGED << aborted, last, shadow, probeVars >>

\* Lines 152-168: what was handed back is a Leaf (else the unreachable!() of
\* line 171); build the replacement node from it and the new Leaf.
Build ==
  /\ pc = "taken"
  /\ LET f == frame[1]
         old == f.held[1]
     IN  IF old.tag = "Leaf"
           THEN /\ frame' = Some([f EXCEPT !.fresh =
                      Some(SplitLeaf(old.k, old.v, f.key, f.value))])
                /\ pc' = "built"
                /\ UNCHANGED aborted
           ELSE /\ aborted' = "was_leaf"
                /\ pc' = "idle"
                /\ frame' = None
  /\ UNCHANGED << root, last, shadow, probeVars >>

\* Lines 153 and 169-173: mem::replace puts the replacement node into the
\* slot, the placeholder is dropped and insert returns None.
\* A return without the second mem::replace.
Install_forgotten ==
  /\ pc = "built"
  /\ LET f == frame[1]
     IN  /\ last' = Call("insert", Some(f.key), Some(f.value), None, {})
         /\ shadow' = Put(shadow, f.key, f.value)
  /\ pc' = "idle"
  /\ frame' = None
  /\ UNCHANGED << root, aborted, probeVars >>

Install ==
  /\ pc = "built"
  /\ LET f == frame[1]
     IN  /\ root' = Some(SubstAt(root[1], f.slot, f.fresh[1]))
         /\ last' = Call("insert", Some(f.key), Some(f.value), None, {})
         /\ shadow' = Put(shadow, f.key, f.value)
  /\ pc' = "idle"
  /\ frame' = None
  /\ UNCHANGED << aborted, probeVars >>

NextSplit ==
  \/ \E key \in Keys, value \in Values : Enter(key, value)
  \/ StepInto
  \/ Overwrite
  \/ Take
  \/ Build
  \/ Install

SpecSplit == Init /\ [][NextSplit]_vars

\* C17 as claimed: at no step of an insert does the slot it works on hold an
\* Internal node with a missing child.
C17_SlotNeverHalfBuilt ==
  frame # None =>
    LET n == NodeAt(root[1], frame[1].slot)
    IN  n.tag = "Internal" => (n.left # None /\ n.right # None)

\* C17 as amended: during a leaf split the slot first holds the placeholder
\* Internal node with no children and crit 0, the rest of the tree being as
\* it was; the replacement node is complete (both children, final crit) before
\* it is installed, installing it gives the tree that insert is to leave, and
\* outside that window no Internal node lacks a child.
C17_OnlyPlaceholderHalfBuilt ==
  /\ (pc \in {"idle", "descend"} /\ root # None) => BothChildren(root[1])
  /\ pc \in {"taken", "built"} =>
       LET f == frame[1]
           before == SubstAt(root[1], f.slot, f.held[1])
       IN  /\ NodeAt(root[1], f.slot) = Placeholder
           /\ f.held[1].tag = "Leaf"
           /\ BothChildren(before)
           /\ pc = "built" =>
                /\ f.fresh[1].tag = "Internal"
                /\ f.fresh[1].left # None
                /\ f.fresh[1].right # None
                /\ f.fresh[1].crit =
                     leading_zeros(KeyBits, BitXor(f.held[1].k, f.key))
                /\ Some(SubstAt(root[1], f.slot, f.fresh[1])) =
                     CritBit_insert(Some(before), f.key, f.value).root

C17_Witness ==
  /\ pc = "idle"
  /\ last.op = "insert"
  /\ last.ret = None
  /\ root # None
  /\ Len(DescentPath(root[1], last.key[1])) >= 2
  /\ BothChildren(root[1])

====
